---- MODULE Spec2Model ----
(***************************************************************************)
(* Model of the validation core of llm_migration:                          *)
(*   - ValidationOperations.update_migration_status  (the status marker)   *)
(*   - ValidationOperations.run_validation_step      (the retry loop)      *)
(*   - run_validation_pipeline                       (the step sequence)   *)
(*                                                                         *)
(* A code text is a sequence of lines (the text split at "\n").  A line is *)
(* a record [k, b, p]: k is the kind of line, b a token that stands for    *)
(* the characters of an ordinary line, p the payload of a marker line, as  *)
(* the sequence of <<key, value>> entries in the order they are written.   *)
(***************************************************************************)
EXTENDS Integers, Sequences, FiniteSets, TLC

VARIABLES
    mcode,      \* update_migration_status: the code after the last call
    mprev,      \* update_migration_status: the code passed to the last call
    mupd,       \* update_migration_status: the updates passed to the last call
    mcalls,     \* number of update_migration_status calls made so far
    mexc,       \* the exception the last call raised, "none" if it returned
    \* inputs of run_validation_pipeline and its environment
    steps,          \* the steps argument (<<>> stands for None or an empty list)
    steps_none,     \* TRUE when the steps argument is None (left unspecified)
    max_retries,    \* the max_retries argument
    llm_client,     \* TRUE when a repair service is passed, FALSE for None
    migrated_code,  \* the migrated_code argument
    writable,       \* TRUE when the working file path can be written
    file,           \* content of the working file on disk, Missing when absent
    \* run_validation_pipeline
    pc,             \* position in the pipeline and in the running step
    idx,            \* number of entries of the step list consumed so far
    p_code,         \* the pipeline's updated_code
    result,         \* what run_validation_pipeline returned
    \* run_validation_step
    vtype,          \* validation_type
    step_code,      \* code of run_validation_step, after the "in progress" update
    updated_code,   \* updated_code
    has_errors,     \* has_errors of the last check
    errors,         \* len(errors) of the last check of line 358
    remaining_errors, \* len(remaining_errors)
    retries,        \* retries
    ret,            \* what run_validation_step returned
    \* history of the run, kept to state the properties
    n_checks,       \* check_method calls of line 358 in the running step
    n_verifies,     \* check_method calls of line 450 in the running step
    n_repairs,      \* _call_llm_api calls in the running step
    n_fixed,        \* repair responses of the running step that yielded code
    first_check,    \* outcome of the first check of the running step
    invoked,        \* indices of the steps for which an adapter was invoked
    passed,         \* indices of the steps whose runner returned success
    failed_at,      \* index of the step that did not pass, 0 if none
    clean_on,       \* <<index of a step, code lines of the file>> of every check that found no error
    last_errors,    \* len of the findings of the last check_method call (358 or 450)
    fix_response,   \* fix_response: what the last _call_llm_api call answered
    exc,            \* the exception that left run_validation_step, "none" if none
    \* migrate_component
    cli,            \* what migrate_component returned
    \* the checker adapters called on their own
    checks,         \* the calls made: adapter, what the tool process did, the answer
    \* MigrationService: two migrations run as background tasks of one event loop
    running,        \* the task that holds the event loop, 0 when it is free
    s_pc,           \* position of each migration in _run_single_validation_step
    s_type,         \* step_info['type'] of each migration
    s_code,         \* updated_code of each migration
    s_retry,        \* retry of each migration
    s_ret,          \* what _run_single_validation_step returned to each migration
    writer,         \* the migration whose write the file holds, 0 if none
    s_updated,      \* updated_code of the pipeline of each migration
    s_todo,         \* the step types each pipeline has still to run after this one
    s_result        \* what _run_validation_pipeline_with_logging returned to each

mvars == <<mcode, mprev, mupd, mcalls, mexc>>
envvars == <<steps, steps_none, max_retries, llm_client, migrated_code, writable>>
pipevars == <<pc, idx, p_code, result>>
stepvars == <<vtype, step_code, updated_code, has_errors, errors, remaining_errors, retries, ret>>
histvars == <<n_checks, n_verifies, n_repairs, n_fixed, first_check, invoked, passed, failed_at, clean_on>>
obsvars == <<last_errors, fix_response, exc>>
kvars == <<checks>>
svars == <<running, s_pc, s_type, s_code, s_retry, s_ret, writer,
          s_updated, s_todo, s_result>>
pvars == <<envvars, kvars, file, pipevars, stepvars, histvars, obsvars, cli>>
vars == <<mvars, pvars, svars>>

(***************************************************************************)
(* Bounds of the model.                                                    *)
(***************************************************************************)
MaxLines == 3       \* longest input code, in lines
MaxCalls == 2       \* longest sequence of update_migration_status calls
MaxErrors == 1      \* largest number of findings one check reports
MaxRetries == 2     \* largest max_retries
MaxBody == 2        \* number of rewrites of the text that are told apart

(***************************************************************************)
(* Status values.  Every value is a record of the same shape so that any   *)
(* two values can be compared: tag is the string value ("pending",         *)
(* "in progress", "done") or "metrics" for the metrics dictionary.         *)
(***************************************************************************)
BaselineChecks == 10

Simple(s) ==
    [tag |-> s, passed |-> 0, failed |-> 0, total |-> 0, skipped |-> 0, successRate |-> 0]

Pending == Simple("pending")
InProgress == Simple("in progress")
Done == Simple("done")

\* a string value with a character that is not ASCII, as a marker found in the
\* input code can hold: json.dumps writes it with a \uXXXX escape
Accented == Simple("accented")

\* string values that json.dumps writes with another escape: a backslash
\* followed by the letter b (written \\b), a control character such as a tab or
\* a backspace (written \t, \b), a newline (written \n)
Backslashed == Simple("backslash")
Control == Simple("control")
Newlined == Simple("newline")

\* validation.py 375-387: the metrics dictionary for a check that reported n errors
validation_status(n) ==
    LET total_checks == n + BaselineChecks
        n_passed == total_checks - n
        success_rate == IF total_checks > 0 THEN (n_passed * 100) \div total_checks ELSE 100
    IN  [tag |-> "metrics", passed |-> n_passed, failed |-> n, total |-> total_checks,
         skipped |-> 0, successRate |-> success_rate]

StatusKeys == {"eslint", "tsc", "build"}
StatusValues == {Pending, InProgress, Done} \cup {validation_status(n) : n \in 0..MaxErrors}

(***************************************************************************)
(* Lines.                                                                  *)
(***************************************************************************)
Line(k, b, p) == [k |-> k, b |-> b, p |-> p]

Text(b) == Line("text", b, <<>>)                \* an ordinary line of code
Blank == Line("blank", 0, <<>>)                 \* the empty line ""
LineComment == Line("lcomment", 0, <<>>)        \* "// ..." that is no marker
BlockComment == Line("bcomment", 0, <<>>)       \* "/* ... */" on one line
BlockOpen == Line("bopen", 0, <<>>)             \* "/* ..." not closed on its line
BlockClose == Line("bclose", 0, <<>>)           \* "... */" ending a block comment
Marker(p) == Line("marker", 0, p)               \* "// MIGRATION STATUS: {json object}"
BadMarker == Line("badmarker", 0, <<>>)         \* "// MIGRATION STATUS: {not json}"
PrefixOnly == Line("prefix", 0, <<>>)           \* "// MIGRATION STATUS: " with no {...}
Frag(b) == Line("frag", b, <<>>)                \* a piece of a line that was cut in two
CutMarker == Line("cut", 0, <<>>)               \* "// MIGRATION STATUS: {..." cut before any "}"
CutTail == Line("tail", 0, <<>>)                \* a later piece of a payload that was cut

\* a marker line whose {...} is followed by more text on the line
Trailed(l) == [l EXCEPT !.b = 1]

\* validation.py 42: the lines status_pattern matches
MatchesPattern(l) == l.k \in {"marker", "badmarker"}

\* the lines that carry the marker prefix "// MIGRATION STATUS:"
HasPrefix(l) == l.k \in {"marker", "badmarker", "prefix", "cut"}

\* str.startswith('//') of a non-blank line
StartsLineComment(l) == l.k \in {"lcomment", "marker", "badmarker", "prefix", "cut"}

\* str.startswith('/*') of a non-blank line
StartsBlockComment(l) == l.k \in {"bcomment", "bopen"}

\* the lines that contain "*/"
HasBlockEnd(l) == l.k \in {"bcomment", "bclose"}

(***************************************************************************)
(* Dictionaries are sequences of <<key, value>> with distinct keys, in     *)
(* insertion order, as Python's dict and json.dumps keep them.             *)
(***************************************************************************)
RECURSIVE IndexOfKey(_, _, _)
IndexOfKey(d, key, i) ==
    IF i > Len(d) THEN 0
    ELSE IF d[i][1] = key THEN i
    ELSE IndexOfKey(d, key, i + 1)

HasKey(d, key) == IndexOfKey(d, key, 1) # 0

Get(d, key) == d[IndexOfKey(d, key, 1)][2]

\* d[key] = value
DictSet(d, key, value) ==
    LET i == IndexOfKey(d, key, 1)
    IN  IF i = 0 THEN Append(d, <<key, value>>)
        ELSE [d EXCEPT ![i] = <<key, value>>]

\* dict.update / the loop of validation.py 61-62
RECURSIVE DictUpdate(_, _)
DictUpdate(d, updates) ==
    IF updates = <<>> THEN d
    ELSE DictUpdate(DictSet(d, Head(updates)[1], Head(updates)[2]), Tail(updates))

\* json.loads of a well-formed payload: a repeated key keeps its first place
\* and its last value
json_loads(p) == DictUpdate(<<>>, p)

\* json.dumps of a dictionary: its entries in insertion order
json_dumps(d) == d

(***************************************************************************)
(* update_migration_status (validation.py 27-100)                          *)
(***************************************************************************)
Range(f) == {f[i] : i \in DOMAIN f}

\* index of the first line that passes Test, 0 if none does
FirstIndex(code, Test(_)) ==
    LET S == {i \in 1..Len(code) : Test(code[i])}
    IN  IF S = {} THEN 0 ELSE CHOOSE i \in S : \A j \in S : i <= j

\* re.search(status_pattern, code): index of the first matching line, 0 if none
status_match(code) == FirstIndex(code, MatchesPattern)

\* validation.py 50-58: the existing status, {} when the payload does not parse
current_status(l) == IF l.k = "marker" THEN json_loads(l.p) ELSE <<>>

\* re.sub takes new_status_comment as a replacement template (re.sub expands
\* the escapes of its repl argument): of the escapes json.dumps writes, \\
\* becomes one backslash, \t and \b the control character itself, \n a
\* newline.  The text written for a value is then the JSON text of another value,
\* or no JSON text at all.
expanded(v) == IF v = Backslashed THEN Control ELSE v

\* the lines the template of new_line writes.  A newline cuts the line: the
\* piece before it matches status_pattern only if it holds a "}", that of a
\* metrics value, and then its payload does not parse.
template(new_line) ==
    LET d == new_line.p
        nl == {i \in 1..Len(d) : d[i][2] = Newlined}
    IN  IF nl # {} THEN
            LET k == CHOOSE i \in nl : \A j \in nl : i <= j
                first == IF \E i \in 1..(k - 1) : d[i][2].tag = "metrics"
                         THEN Trailed(BadMarker) ELSE CutMarker
            IN  <<first>> \o [i \in 1..Cardinality(nl) |-> CutTail]
        ELSE IF \E i \in 1..Len(d) : d[i][2] = Control THEN <<BadMarker>>
        ELSE <<Marker([i \in 1..Len(d) |-> <<d[i][1], expanded(d[i][2])>>])>>

\* re.sub(status_pattern, new_status_comment, code): every match is replaced,
\* the text that follows the match on its line stays
RECURSIVE re_sub(_, _)
re_sub(code, new_line) ==
    IF code = <<>> THEN <<>>
    ELSE LET l == Head(code)
             w == template(new_line)
             written == IF ~MatchesPattern(l) THEN <<l>>
                        ELSE IF l.b = 1 /\ Len(w) = 1 THEN <<Trailed(w[1])>>
                        ELSE w
         IN  written \o re_sub(Tail(code), new_line)

\* validation.py 71-80: the status of a new marker
new_status(status_updates) ==
    LET s1 == IF ~HasKey(status_updates, "eslint") THEN <<<<"eslint", Pending>>>> ELSE <<>>
        s2 == IF ~HasKey(status_updates, "tsc") THEN Append(s1, <<"tsc", Pending>>) ELSE s1
    IN  DictUpdate(s2, status_updates)

NotBlank(l) == l.k # "blank"

\* code[:i-th line] + '\n' + status_comment + '\n' + code[end of i-th line:]
InsertAfterLine(code, i, status_comment) ==
    SubSeq(code, 1, i) \o <<status_comment, Blank>> \o SubSeq(code, i + 1, Len(code))

\* validation.py 85-98: where the new marker goes
insert_status_comment(code, status_comment) ==
    LET first == FirstIndex(code, NotBlank)
        top == <<status_comment>> \o code
    IN  IF first = 0 THEN top
        ELSE IF StartsBlockComment(code[first]) THEN
            LET e == FirstIndex(code, HasBlockEnd)
            IN  IF e # 0 THEN InsertAfterLine(code, e, status_comment)
                \* no "*/": comment_end = -1 + 2 = 1, the text is cut after its
                \* first character
                ELSE IF code[1].k = "blank"
                    THEN <<Blank, Blank, status_comment>> \o Tail(code)
                    ELSE <<Frag(1), status_comment, Frag(2)>> \o Tail(code)
        ELSE IF StartsLineComment(code[first]) THEN
            \* comment_end = code.find('\n'): the end of the first line
            IF Len(code) >= 2 /\ code[1].k # "blank"
                THEN InsertAfterLine(code, 1, status_comment)
                ELSE top
        ELSE top

\* validation.py 65-68: re.sub takes new_status_comment as a replacement template
\* and raises re.error ("bad escape \u") when the JSON text holds a \uXXXX escape
update_raises(code, status_updates) ==
    LET m == status_match(code)
    IN  /\ m # 0
        /\ \E e \in Range(json_dumps(DictUpdate(current_status(code[m]), status_updates))) :
                e[2] = Accented

update_migration_status(code, status_updates) ==
    LET m == status_match(code)
    IN  IF m # 0
        THEN re_sub(code, Marker(json_dumps(DictUpdate(current_status(code[m]), status_updates))))
        ELSE insert_status_comment(code, Marker(json_dumps(new_status(status_updates))))

(***************************************************************************)
(* Readings of a code text used to state the properties.                   *)
(***************************************************************************)
CountLines(code, Test(_)) == Cardinality({i \in 1..Len(code) : Test(code[i])})

\* number of lines that carry the marker prefix
MarkerLines(code) == CountLines(code, HasPrefix)

\* the mapping a payload denotes, as a function on its keys: the value of a key
\* is the one of its last entry
MappingOf(p) ==
    [key \in {p[i][1] : i \in 1..Len(p)} |->
        p[CHOOSE i \in 1..Len(p) :
            /\ p[i][1] = key
            /\ \A j \in (i + 1)..Len(p) : p[j][1] # key][2]]

\* the code carries a marker whose payload parses
WellFormedMarker(code) == status_match(code) # 0 /\ code[status_match(code)].k = "marker"

\* the mapping of the marker of the code
MarkerMapping(code) == MappingOf(code[status_match(code)].p)

(***************************************************************************)
(* Inputs of update_migration_status.                                      *)
(***************************************************************************)
SamplePayloads ==
    { <<>>,
      <<<<"eslint", Pending>>, <<"tsc", Pending>>>>,
      <<<<"tsc", Done>>, <<"eslint", validation_status(MaxErrors)>>>>,
      <<<<"eslint", Pending>>, <<"build", InProgress>>, <<"eslint", Done>>>>,
      <<<<"note", Accented>>>>,
      <<<<"note", Backslashed>>>>,
      <<<<"note", Newlined>>, <<"tsc", Pending>>>>,
      <<<<"tsc", validation_status(0)>>, <<"note", Newlined>>>> }

PlainLines == {Text(0), Blank, LineComment, BlockComment, BlockOpen, BlockClose}
MarkerLineSet == {Marker(p) : p \in SamplePayloads} \cup {BadMarker, PrefixOnly}

SeqsUpTo(S, n) == UNION {[1..k -> S] : k \in 1..n}

\* every text of at most MaxLines lines with at most one marker line
InputCodes ==
    {c \in SeqsUpTo(PlainLines \cup MarkerLineSet, MaxLines) : MarkerLines(c) <= 1}

UpdateSet ==
    { <<>>,
      <<<<"eslint", Done>>>>,
      <<<<"tsc", InProgress>>>>,
      <<<<"build", validation_status(MaxErrors)>>>>,
      <<<<"build", Done>>>>,
      <<<<"eslint", Pending>>, <<"build", Pending>>, <<"tsc", Pending>>>> }

(***************************************************************************)
(* The file accessor (git_operations.py)                                   *)
(***************************************************************************)
Missing == <<>>

\* GitOperations.write_file: a failed write is caught and leaves the file as it was
write_file(f, content) == IF writable THEN content ELSE f

(***************************************************************************)
(* Configuration of the steps                                              *)
(***************************************************************************)
\* main.py 41-45: validation_steps, step name -> validation type
KnownSteps == {"fix-eslint", "fix-build", "fix-tsc"}

step_type(step) ==
    CASE step = "fix-eslint" -> "eslint"
      [] step = "fix-build" -> "build"
      [] step = "fix-tsc" -> "typescript"

\* (mutant) the type check comes first
DefaultStepsTscFirst == <<"fix-tsc", "fix-eslint", "fix-build">>

\* main.py 48-49
DefaultSteps == <<"fix-eslint", "fix-build", "fix-tsc">>
Steps == IF steps = <<>> THEN DefaultSteps ELSE steps

\* validation.py 267-289: _get_validation_config
status_key(validation_type) ==
    CASE validation_type = "eslint" -> "eslint"
      [] validation_type = "typescript" -> "tsc"
      [] validation_type = "build" -> "build"

has_pre_check(validation_type) == validation_type = "eslint"

\* main.py 63-70: initial_status
RECURSIVE initial_status(_)
initial_status(ss) ==
    IF ss = <<>> THEN <<>>
    ELSE LET rest == initial_status(SubSeq(ss, 1, Len(ss) - 1))
             step == ss[Len(ss)]
         IN  IF step \in KnownSteps
             THEN DictSet(rest, status_key(step_type(step)), Pending)
             ELSE rest

\* main.py 73-74: the seeding of the marker
seed_status(c, ss) ==
    IF initial_status(ss) # <<>> THEN update_migration_status(c, initial_status(ss)) ELSE c

\* main.py 73-74: the seeding raises
seed_raises(c, ss) == initial_status(ss) # <<>> /\ update_raises(c, initial_status(ss))

(***************************************************************************)
(* The external tools: what they can answer                                *)
(***************************************************************************)
\* a rewriting of the ordinary lines of a text (by eslint --fix or by the repair)
Rewrite(c) ==
    [i \in 1..Len(c) |->
        IF c[i].k = "text" THEN Text(IF c[i].b < MaxBody THEN c[i].b + 1 ELSE MaxBody)
        ELSE c[i]]

\* What subprocess.run gives a checker adapter: it raises (the program cannot
\* be started), or the tool ran and left an exit code rc, a standard error
\* stream (nothing, the message "No files matching the pattern", or another
\* message), a standard output (nothing, text that is not JSON, or the JSON
\* report of eslint) and n reported problems: the messages of the eslint
\* report, of which the last w are warnings, the output lines that hold
\* "error TS" for tsc, "error" or "failed" for yarn build
Raises == [kind |-> "raise", rc |-> 0, stderr |-> "", stdout |-> "", n |-> 0, w |-> 0]
Ran(rc, stderr, stdout, n) ==
    [kind |-> "ran", rc |-> rc, stderr |-> stderr, stdout |-> stdout, n |-> n, w |-> 0]

\* the JSON report of eslint with e errors and w warnings: the exit code is 1
\* when there is an error
LintReport(e, w) == [Ran(IF e > 0 THEN 1 ELSE 0, "", "json", e + w) EXCEPT !.w = w]

\* npx eslint --format=json on a file that exists
LintRuns ==
    { Raises,
      Ran(2, "no_files", "", 0),
      Ran(2, "other", "", 0),
      Ran(2, "other", "garbage", 0) }
    \cup UNION { { LintReport(n - w, w) : w \in 0..n } : n \in 0..MaxErrors }

\* npx tsc --noEmit on the file `f`: tsc does not exit with 0 on a missing file
\* (error TS6053); when npx cannot run tsc no line holds "error TS"
TscRuns(f) ==
    { Raises }
    \cup (IF f = Missing THEN {} ELSE { Ran(0, "", "", 0) })
    \cup { Ran(2, "", "text", n) : n \in 0..MaxErrors }

\* yarn build in the directory of the sub-repository
BuildRuns ==
    { Raises, Ran(0, "", "text", 0) } \cup { Ran(1, "other", "text", n) : n \in 0..MaxErrors }

\* a finding: what its message tells, and its severity
Finding(about, severity) == [about |-> about, severity |-> severity]

\* validation.py 208-213 and 247-252: the n lines kept of the output of tsc
\* or yarn build, as findings
Reported(n) == [i \in 1..n |-> Finding("problem", 2)]

\* validation.py 169-172: the messages of the eslint report, as eslint wrote
\* them: an error has severity 2, a warning severity 1
Messages(run) ==
    [i \in 1..run.n |-> Finding("problem", IF i <= run.n - run.w THEN 2 ELSE 1)]

Answer(has_errors_, errors_) == [has_errors |-> has_errors_, errors |-> errors_]

\* validation.py 130-178.  Line 156 reads full_path, a name that is not
\* defined: the NameError is caught at 177 and its text is the finding.
check_lint_errors(f, run) ==
    IF f = Missing THEN Answer(TRUE, <<Finding("file not found", 2)>>)
    ELSE IF run.kind = "raise" THEN Answer(TRUE, <<Finding("exception", 2)>>)
    ELSE IF run.stderr = "no_files" THEN Answer(TRUE, <<Finding("name not defined", 2)>>)
    ELSE IF run.stdout = "garbage" THEN Answer(TRUE, <<Finding("output not parsed", 2)>>)
    ELSE IF run.stdout = "json" THEN Answer(run.n > 0, Messages(run))
    ELSE Answer(FALSE, <<>>)

\* validation.py 180-217
check_typescript_errors(run) ==
    IF run.kind = "raise" THEN Answer(TRUE, <<Finding("exception", 2)>>)
    ELSE Answer(run.rc # 0, IF run.rc # 0 THEN Reported(run.n) ELSE <<>>)

\* validation.py 219-256
check_build_errors(run) ==
    IF run.kind = "raise" THEN Answer(TRUE, <<Finding("exception", 2)>>)
    ELSE Answer(run.rc # 0, IF run.rc # 0 THEN Reported(run.n) ELSE <<>>)

\* validation.py 267-289: check_method of the validation type, over everything
\* the tool process can do on the file `f`
check_method(validation_type, f) ==
    CASE validation_type = "eslint" -> { check_lint_errors(f, run) : run \in LintRuns }
      [] validation_type = "typescript" -> { check_typescript_errors(run) : run \in TscRuns(f) }
      [] validation_type = "build" -> { check_build_errors(run) : run \in BuildRuns }

\* <<has_errors, len(errors)>> a checker can return (validation.py 130-256):
\* check_lint_errors has errors exactly when its list is not empty and answers a
\* missing file with one finding; tsc and yarn build have errors when the exit
\* code is not 0, whatever the number of lines they keep
CheckOutcomes(validation_type, f) ==
    { <<a.has_errors, Len(a.errors)>> : a \in check_method(validation_type, f) }

\* str.strip() of a text: the blank lines at both ends go
RECURSIVE StripLeft(_)
StripLeft(c) ==
    IF c = <<>> THEN <<>>
    ELSE IF Head(c).k = "blank" THEN StripLeft(Tail(c))
    ELSE c

RECURSIVE StripRight(_)
StripRight(c) ==
    IF c = <<>> THEN <<>>
    ELSE IF c[Len(c)].k = "blank" THEN StripRight(SubSeq(c, 1, Len(c) - 1))
    ELSE c

strip(c) == LET t == StripRight(StripLeft(c)) IN IF t = <<>> THEN <<Blank>> ELSE t

\* the text without the lines that carry the marker prefix
RECURSIVE DropMarkers(_)
DropMarkers(c) ==
    IF c = <<>> THEN <<>>
    ELSE IF HasPrefix(Head(c)) THEN DropMarkers(Tail(c))
    ELSE <<Head(c)>> \o DropMarkers(Tail(c))

\* the lines of a text that are neither marker lines nor empty lines
RECURSIVE CodeBody(_)
CodeBody(c) ==
    IF c = <<>> THEN <<>>
    ELSE IF HasPrefix(Head(c)) \/ Head(c) = Blank THEN CodeBody(Tail(c))
    ELSE <<Head(c)>> \o CodeBody(Tail(c))

\* lines of a completion response that are not lines of code
Prose == Line("prose", 0, <<>>)                 \* a sentence
FenceTsx == Line("fence_tsx", 0, <<>>)          \* "```tsx"
FenceOther == Line("fence_other", 0, <<>>)      \* "```typescript"
Fence == Line("fence", 0, <<>>)                 \* "```"

IsFenceTsx(l) == l.k = "fence_tsx"

\* the lines that start with "```"
StartsFence(l) == l.k \in {"fence_tsx", "fence_other", "fence"}

\* the lines i..j of the text, joined by "\n", hold at least one character
NonEmptyText(text, i, j) == j > i \/ (j = i /\ text[i].k # "blank")

\* What _call_llm_api can do when asked to repair `c` (llm_client.py 112-150):
\* raise RuntimeError, return None (no content), or return a text: prose with no
\* fenced block, or a fenced block holding the repaired code, with the marker
\* line kept as it was in the prompt or left out
Response(kind, body) == [kind |-> kind, body |-> body]

NoResponse == Response("unset", <<>>)

Responses(c) ==
    { Response("raise", <<>>), Response("none", <<>>),
      Response("text", <<Prose>>),
      Response("text", <<Prose, FenceTsx, Blank>> \o Rewrite(c) \o <<Fence, Prose>>),
      Response("text", <<FenceTsx>> \o DropMarkers(Rewrite(c)) \o <<Blank, Fence>>),
      Response("text", <<Prose, FenceOther>> \o Rewrite(c) \o <<Fence>>),
      Response("text", <<FenceTsx, Blank, Fence>>) }

\* The answers to the prompt of run_validation_step, which shows the marker line
\* (validation.py 416-434): those above, and the repaired code under a marker
\* line written anew, with a note that holds an accented letter
StepResponses(c) ==
    Responses(c)
    \cup { Response("text", <<FenceTsx, Marker(<<<<"note", Accented>>>>)>>
                                \o DropMarkers(Rewrite(c)) \o <<Fence>>) }

\* re.search(code_pattern, text, re.DOTALL) with code_pattern "```tsx\n(.+?)\n```":
\* <<i, j>>, the lines of the opening and of the closing fence, <<0, 0>> when
\* there is no match.  The group takes the fewest characters, at least one, up
\* to a line that starts with "```".
code_pattern_search(text) ==
    LET i == FirstIndex(text, IsFenceTsx)
        J == IF i = 0 THEN {}
             ELSE {j \in (i + 2)..Len(text) :
                      StartsFence(text[j]) /\ NonEmptyText(text, i + 1, j - 1)}
    IN  IF J = {} THEN <<0, 0>> ELSE <<i, CHOOSE j \in J : \A k \in J : j <= k>>

\* validation.py 438-441: code_match is not None
code_match(r) == r.kind = "text" /\ code_pattern_search(r.body)[1] # 0

\* code_match.group(1)
group1(r) ==
    LET m == code_pattern_search(r.body) IN SubSeq(r.body, m[1] + 1, m[2] - 1)

(***************************************************************************)
(* run_validation_step: the updates of the marker                          *)
(***************************************************************************)
\* validation.py 324-331: an exception of the update is caught at 328 and the
\* step goes on with the code as it was
mark_in_progress(c, key) ==
    IF update_raises(c, <<<<key, InProgress>>>>) THEN c
    ELSE update_migration_status(c, <<<<key, InProgress>>>>)

\* validation.py 373-399: an exception of the update is caught at 396
record_metrics(c, key, n) ==
    IF update_raises(c, <<<<key, validation_status(n)>>>>) THEN c
    ELSE update_migration_status(c, <<<<key, validation_status(n)>>>>)

\* (mutant) the step is not marked "done"
mark_done_skipped(c, key) == c

\* validation.py 404-408 and 454-458
mark_done(c, key) == update_migration_status(c, <<<<key, Done>>>>)

\* validation.py 404-408 and 454-458: nothing catches an exception of this update
mark_done_raises(c, key) == update_raises(c, <<<<key, Done>>>>)

\* validation.py 343: the condition of the retry loop (success is only set on
\* the way out of it)
loop_continues(r, n) == r < n

\* (mutant) fix-tsc is missing from validation_steps
known_step_without_tsc(step) == step \in KnownSteps \ {"fix-tsc"}

\* main.py 83: the step is one of validation_steps
known_step(step) == step \in KnownSteps

\* (mutant) the pipeline goes on after a step that did not pass
pipeline_never_stops(step_success) == FALSE

\* main.py 98: the pipeline returns at a step that did not pass
pipeline_stops(step_success) == ~step_success

NoReturn == [ok |-> FALSE, code |-> <<>>, nerr |-> 0, how |-> "none"]
Return(ok, c, n, how) == [ok |-> ok, code |-> c, nerr |-> n, how |-> how]

NoResult == [done |-> FALSE, success |-> FALSE, code |-> <<>>]
Result(ok, c) == [done |-> TRUE, success |-> ok, code |-> c]

\* (mutant) only the handler of json.JSONDecodeError is there
pipeline_catches_json_only(e) == e = "JSONDecodeError"

\* main.py 112-126: the handlers of run_validation_pipeline, json.JSONDecodeError
\* and Exception; every exception a step raises is an Exception
pipeline_catches(e) ==
    e = "JSONDecodeError" \/ e \in {"RuntimeError", "TypeError", "FileNotFoundError", "re.error"}

NoExit == [done |-> FALSE, ok |-> FALSE, code |-> <<>>]
Exit(ok, c) == [done |-> TRUE, ok |-> ok, code |-> c]

\* main.py 237-244: final_status, built from the steps argument as it was passed
RECURSIVE final_status(_)
final_status(ss) ==
    IF ss = <<>> THEN <<>>
    ELSE LET rest == final_status(SubSeq(ss, 1, Len(ss) - 1))
             step == ss[Len(ss)]
         IN  IF step \in KnownSteps
             THEN DictSet(rest, status_key(step_type(step)), Done)
             ELSE rest

\* the migrations the service runs at the same time
Migrations == {1, 2}

SvcOff ==
    /\ running = 0
    /\ s_pc = [m \in Migrations |-> "off"]
    /\ s_type = [m \in Migrations |-> "none"]
    /\ s_code = [m \in Migrations |-> <<>>]
    /\ s_retry = [m \in Migrations |-> 0]
    /\ s_ret = [m \in Migrations |-> NoReturn]
    /\ writer = 0
    /\ s_updated = [m \in Migrations |-> <<>>]
    /\ s_todo = [m \in Migrations |-> <<>>]
    /\ s_result = [m \in Migrations |-> NoResult]

(***************************************************************************)
(* run_validation_pipeline and run_validation_step, step by step           *)
(***************************************************************************)
StepLists ==
    { <<>>,
      <<"fix-eslint">>, <<"fix-build">>, <<"fix-tsc">>,
      <<"fix-lint", "fix-ts">>,
      <<"fix-tsc", "fix-lint">>,
      <<"fix-tsc", "fix-eslint">> }

PipelineInputs ==
    { <<Text(0)>>,
      <<Marker(<<<<"eslint", Done>>, <<"tsc", Pending>>>>), Text(0)>>,
      <<Marker(<<<<"note", Accented>>>>), Text(0)>> }

Idle ==
    /\ pc = "idle" /\ idx = 0 /\ p_code = <<>> /\ result = NoResult
    /\ vtype = "none" /\ step_code = <<>> /\ updated_code = <<>>
    /\ has_errors = FALSE /\ errors = 0 /\ remaining_errors = 0 /\ retries = 0
    /\ ret = NoReturn
    /\ n_checks = 0 /\ n_verifies = 0 /\ n_repairs = 0 /\ n_fixed = 0
    /\ first_check = "none" /\ invoked = {} /\ passed = {} /\ failed_at = 0
    /\ clean_on = {}
    /\ last_errors = 0 /\ fix_response = NoResponse /\ exc = "none"
    /\ cli = NoExit
    /\ checks = <<>>

Init ==
    /\ mcode = <<>> /\ mprev = <<>> /\ mupd = <<>> /\ mcalls = 0 /\ mexc = "none"
    /\ steps \in StepLists
    /\ steps_none \in (IF steps = <<>> THEN BOOLEAN ELSE {FALSE})
    /\ max_retries \in 0..MaxRetries
    /\ llm_client \in BOOLEAN
    /\ migrated_code \in PipelineInputs
    /\ writable \in BOOLEAN
    /\ file \in {Missing, <<Text(0)>>}
    /\ Idle
    /\ SvcOff

\* main.py 47-79: the default steps and the seeding of the marker
PipelineStart ==
    /\ pc = "idle"
    /\ ~seed_raises(migrated_code, Steps)
    /\ p_code' = seed_status(migrated_code, Steps)
    /\ idx' = 0
    /\ pc' = "next_step"
    /\ UNCHANGED <<mvars, envvars, kvars, svars, last_errors, fix_response, exc, cli,
                   file, result, stepvars, histvars>>

\* main.py 73-74 and validation.py 68: the seeding of the marker raises re.error
PipelineSeedRaises ==
    /\ pc = "idle"
    /\ seed_raises(migrated_code, Steps)
    /\ exc' = "re.error"
    /\ pc' = "step_raised"
    /\ UNCHANGED <<mvars, envvars, kvars, svars, last_errors, fix_response, cli,
                   file, idx, p_code, result, stepvars, histvars>>

\* main.py 83-86: an unknown step is skipped
SkipUnknownStep ==
    /\ pc = "next_step"
    /\ idx < Len(Steps)
    /\ ~known_step(Steps[idx + 1])
    /\ idx' = idx + 1
    /\ UNCHANGED <<mvars, envvars, kvars, svars, last_errors, fix_response, exc, cli,
                   file, pc, p_code, result, stepvars, histvars>>

\* main.py 88-96 and validation.py 312-340: the step is entered
StepStart ==
    /\ pc = "next_step"
    /\ idx < Len(Steps)
    /\ known_step(Steps[idx + 1])
    /\ idx' = idx + 1
    /\ vtype' = step_type(Steps[idx + 1])
    /\ step_code' = mark_in_progress(p_code, status_key(vtype'))
    /\ file' = write_file(file, step_code')
    /\ updated_code' = step_code'
    /\ has_errors' = FALSE /\ errors' = 0
    /\ remaining_errors' = 0
    /\ retries' = 0
    /\ ret' = NoReturn
    /\ n_checks' = 0 /\ n_verifies' = 0 /\ n_repairs' = 0 /\ n_fixed' = 0
    /\ first_check' = "none"
    /\ last_errors' = 0 /\ fix_response' = NoResponse
    /\ pc' = "loop"
    /\ UNCHANGED <<mvars, envvars, kvars, svars, exc, cli, p_code, result, invoked, passed, failed_at, clean_on>>

\* validation.py 343: the loop goes on
LoopEnter ==
    /\ pc = "loop"
    /\ loop_continues(retries, max_retries)
    /\ pc' = IF has_pre_check(vtype) THEN "pre_check" ELSE "check"
    /\ UNCHANGED <<mvars, envvars, kvars, svars, last_errors, fix_response, exc, cli,
                   file, idx, p_code, result, stepvars, histvars>>

\* validation.py 343 and 471-478: the retries are exhausted
LoopExit ==
    /\ pc = "loop"
    /\ ~loop_continues(retries, max_retries)
    /\ ret' = Return(FALSE, updated_code, remaining_errors, "exhausted")
    /\ pc' = "step_returned"
    /\ UNCHANGED <<mvars, envvars, kvars, svars, last_errors, fix_response, exc, cli,
                   file, idx, p_code, result, vtype, step_code, updated_code,
                   has_errors, errors, remaining_errors, retries, histvars>>

\* validation.py 345-351: run_lint_fix fails and its output holds "No files
\* matching the pattern"; the step returns on what the tool printed, whether
\* the working file is there or not
PreCheckFileNotFound ==
    /\ pc = "pre_check"
    /\ invoked' = invoked \cup {idx}
    /\ ret' = Return(FALSE, step_code, 1, "fatal")
    /\ pc' = "step_returned"
    /\ UNCHANGED <<mvars, envvars, kvars, svars, last_errors, fix_response, exc, cli,
                   file, idx, p_code, result, vtype, step_code, updated_code,
                   has_errors, errors, remaining_errors, retries,
                   n_checks, n_verifies, n_repairs, n_fixed, first_check, passed, failed_at, clean_on>>

\* validation.py 345-354: run_lint_fix fails without that message (npx cannot be
\* run, say) and read_file raises on the missing file
PreCheckReadRaises ==
    /\ pc = "pre_check"
    /\ file = Missing
    /\ invoked' = invoked \cup {idx}
    /\ exc' = "FileNotFoundError"
    /\ pc' = "step_raised"
    /\ UNCHANGED <<mvars, envvars, kvars, svars, last_errors, fix_response, cli,
                   file, idx, p_code, result, stepvars,
                   n_checks, n_verifies, n_repairs, n_fixed, first_check, passed, failed_at, clean_on>>

\* validation.py 345-354: eslint --fix runs on the file, which is then read
PreCheck ==
    /\ pc = "pre_check"
    /\ file # Missing
    /\ \E fixed \in {file, Rewrite(file)} :
        /\ file' = fixed
        /\ updated_code' = fixed
    /\ invoked' = invoked \cup {idx}
    /\ pc' = "check"
    /\ UNCHANGED <<mvars, envvars, kvars, svars, last_errors, fix_response, exc, cli,
                   idx, p_code, result, vtype, step_code,
                   has_errors, errors, remaining_errors, retries, ret,
                   n_checks, n_verifies, n_repairs, n_fixed, first_check, passed, failed_at, clean_on>>

\* validation.py 356-410 and 467: the check, the metrics, and either the success,
\* the way to the repair, or the next retry when there is no repair service
Check ==
    /\ pc = "check"
    /\ \E o \in CheckOutcomes(vtype, file) :
        LET with_metrics == record_metrics(updated_code, status_key(vtype), o[2])
        IN  /\ has_errors' = o[1]
            /\ errors' = o[2]
            /\ last_errors' = o[2]
            /\ clean_on' = IF o[1] THEN clean_on ELSE clean_on \cup {<<idx, CodeBody(file)>>}
            /\ first_check' = IF first_check # "none" THEN first_check
                              ELSE IF o[1] THEN "errors" ELSE "clean"
            /\ IF ~o[1] /\ mark_done_raises(with_metrics, status_key(vtype))
               THEN /\ updated_code' = with_metrics
                    /\ exc' = "re.error"
                    /\ pc' = "step_raised"
                    /\ UNCHANGED <<ret, retries>>
               ELSE IF ~o[1]
               THEN /\ updated_code' = mark_done(with_metrics, status_key(vtype))
                    /\ ret' = Return(TRUE, updated_code', remaining_errors, "passed")
                    /\ pc' = "step_returned"
                    /\ UNCHANGED <<retries, exc>>
               ELSE /\ updated_code' = with_metrics
                    /\ UNCHANGED <<ret, exc>>
                    /\ IF llm_client
                       THEN pc' = "repair" /\ retries' = retries
                       ELSE pc' = "loop" /\ retries' = retries + 1
    /\ n_checks' = n_checks + 1
    /\ invoked' = invoked \cup {idx}
    /\ UNCHANGED <<mvars, envvars, kvars, svars, fix_response, cli,
                   file, idx, p_code, result, vtype, step_code,
                   remaining_errors, n_verifies, n_repairs, n_fixed, passed, failed_at>>

\* validation.py 413-446 and 464-467: the repair call answers r, and the
\* extraction
RepairGiven(r) ==
    /\ pc = "repair"
    /\ fix_response' = r
    /\ IF r.kind \in {"raise", "none"}
       \* RuntimeError from _call_llm_api, or TypeError from re.search(.., None)
       THEN /\ pc' = "step_raised"
            /\ exc' = IF r.kind = "raise" THEN "RuntimeError" ELSE "TypeError"
            /\ UNCHANGED <<updated_code, file, retries, n_fixed>>
       ELSE IF code_match(r)
       THEN /\ updated_code' = strip(group1(r))
            /\ file' = write_file(file, updated_code')
            /\ n_fixed' = n_fixed + 1
            /\ pc' = "verify"
            /\ UNCHANGED <<retries, exc>>
       ELSE /\ retries' = retries + 1
            /\ pc' = "loop"
            /\ UNCHANGED <<updated_code, file, n_fixed, exc>>
    /\ n_repairs' = n_repairs + 1
    /\ UNCHANGED <<mvars, envvars, kvars, svars, last_errors, cli,
                   idx, p_code, result, vtype, step_code, has_errors, errors,
                   remaining_errors, ret, n_checks, n_verifies, first_check, invoked,
                   passed, failed_at, clean_on>>

\* validation.py 434: the repair service answers the prompt
Repair == \E r \in StepResponses(updated_code) : RepairGiven(r)

\* validation.py 448-467: the check of the repaired code
Verify ==
    /\ pc = "verify"
    /\ \E o \in CheckOutcomes(vtype, file) :
        /\ has_errors' = o[1]
        /\ remaining_errors' = o[2]
        /\ last_errors' = o[2]
        /\ clean_on' = IF o[1] THEN clean_on ELSE clean_on \cup {<<idx, CodeBody(file)>>}
        /\ IF ~o[1] /\ mark_done_raises(updated_code, status_key(vtype))
           THEN /\ exc' = "re.error"
                /\ pc' = "step_raised"
                /\ UNCHANGED <<updated_code, ret, retries>>
           ELSE IF ~o[1]
           THEN /\ updated_code' = mark_done(updated_code, status_key(vtype))
                /\ ret' = Return(TRUE, updated_code', o[2], "passed")
                /\ pc' = "step_returned"
                /\ UNCHANGED <<retries, exc>>
           ELSE /\ retries' = retries + 1
                /\ pc' = "loop"
                /\ UNCHANGED <<updated_code, ret, exc>>
    /\ n_verifies' = n_verifies + 1
    /\ UNCHANGED <<mvars, envvars, kvars, svars, fix_response, cli,
                   file, idx, p_code, result, vtype, step_code, errors,
                   n_checks, n_repairs, n_fixed, first_check, invoked, passed, failed_at>>

\* main.py 92-103: the step passed, the pipeline goes on with its code
StepPassed ==
    /\ pc = "step_returned"
    /\ ~pipeline_stops(ret.ok)
    /\ p_code' = ret.code
    /\ pc' = "next_step"
    /\ passed' = IF ret.ok THEN passed \cup {idx} ELSE passed
    /\ failed_at' = IF ~ret.ok /\ failed_at = 0 THEN idx ELSE failed_at
    /\ UNCHANGED <<mvars, envvars, kvars, svars, last_errors, fix_response, exc, cli,
                   file, idx, result, stepvars,
                   n_checks, n_verifies, n_repairs, n_fixed, first_check, invoked, clean_on>>

\* main.py 98-101: the step failed, the pipeline returns
StepFailed ==
    /\ pc = "step_returned"
    /\ pipeline_stops(ret.ok)
    /\ p_code' = ret.code
    /\ passed' = IF ret.ok THEN passed \cup {idx} ELSE passed
    /\ failed_at' = IF failed_at = 0 THEN idx ELSE failed_at
    /\ result' = Result(FALSE, ret.code)
    /\ pc' = "returned"
    /\ UNCHANGED <<mvars, envvars, kvars, svars, last_errors, fix_response, exc, cli,
                   file, idx, stepvars,
                   n_checks, n_verifies, n_repairs, n_fixed, first_check, invoked, clean_on>>

\* main.py 112-126: an exception of the step reaches the handlers of the pipeline
PipelineExcept ==
    /\ pc = "step_raised"
    /\ failed_at' = IF failed_at = 0 THEN idx ELSE failed_at
    /\ IF pipeline_catches(exc)
       THEN result' = Result(FALSE, migrated_code) /\ pc' = "returned"
       ELSE result' = result /\ pc' = "propagated"
    /\ UNCHANGED <<mvars, envvars, kvars, svars, last_errors, fix_response, exc, cli,
                   file, idx, p_code, stepvars,
                   n_checks, n_verifies, n_repairs, n_fixed, first_check, invoked, passed, clean_on>>

\* main.py 105-110: every step of the list is behind
PipelineSuccess ==
    /\ pc = "next_step"
    /\ idx = Len(Steps)
    /\ result' = Result(TRUE, p_code)
    /\ pc' = "returned"
    /\ UNCHANGED <<mvars, envvars, kvars, svars, last_errors, fix_response, exc, cli,
                   file, idx, p_code, stepvars, histvars>>

\* the component file as it is committed on master, which migrate_component
\* read at main.py 194: what `git checkout master` puts back
Original == <<Text(0)>>

\* how far the git operations of main.py 255-291 get, and whether the clean-up
\* of main.py 306-310 then checks master out: the user is asked about it once
\* there is a commit
GitOutcomes ==
    { <<how, FALSE>> : how \in {"declined", "create_branch raises", "commit raises",
                                 "push raises", "pushed"} }
    \cup { <<how, TRUE>> : how \in {"push raises", "pushed"} }

\* main.py 217-310: migrate_component after run_validation_pipeline.  The loop of
\* line 238 iterates the steps argument itself (TypeError when it is None).  The
\* user declines the commit, or accepts it: create_branch, commit_changes (which
\* writes final_code to the working file, git_operations.py 206-211, then adds
\* and commits it) and push_changes run until one of them raises.
MigrateComponent ==
    /\ pc \in {"returned", "propagated"}
    /\ \E g \in GitOutcomes :
        LET how == g[1]
            restored == g[2]
            raised_before ==
                \/ pc = "propagated"
                \/ result.success /\ steps_none
                \/ /\ result.success /\ final_status(steps) # <<>>
                   /\ update_raises(result.code, final_status(steps))
            final_code ==
                IF ~result.success THEN migrated_code
                ELSE IF final_status(steps) # <<>>
                THEN update_migration_status(result.code, final_status(steps))
                ELSE result.code
            written == how \notin {"declined", "create_branch raises"} /\ writable
            committed == written /\ how \in {"push raises", "pushed"}
            raised == how \in {"create_branch raises", "commit raises", "push raises"}
                      \/ (how = "pushed" /\ ~writable)
        IN  IF raised_before
            THEN cli' = Exit(FALSE, <<>>) /\ file' = file
            ELSE /\ cli' = IF raised THEN Exit(FALSE, <<>>) ELSE Exit(TRUE, final_code)
                 /\ file' = IF committed /\ restored THEN Original
                            ELSE IF written THEN final_code
                            ELSE file
    /\ pc' = "exited"
    /\ UNCHANGED <<mvars, envvars, kvars, svars, last_errors, fix_response, exc,
                   idx, p_code, result, stepvars, histvars>>

Next ==
    \/ PipelineStart
    \/ PipelineSeedRaises
    \/ SkipUnknownStep
    \/ StepStart
    \/ LoopEnter
    \/ LoopExit
    \/ PreCheckFileNotFound
    \/ PreCheckReadRaises
    \/ PreCheck
    \/ Check
    \/ Repair
    \/ Verify
    \/ StepPassed
    \/ StepFailed
    \/ PipelineExcept
    \/ PipelineSuccess
    \/ MigrateComponent

Spec == Init /\ [][Next]_vars

(***************************************************************************)
(* Specification of the repair call alone: run_validation_step of the type *)
(* check, entered on a code without marker, stands before the call of line *)
(* 434 after its first check reported errors, and the repair service       *)
(* answers any text of a few lines.                                        *)
(***************************************************************************)
ResponseLines == {Prose, FenceTsx, FenceOther, Fence, Blank, Text(0)}

RepairAnswers ==
    { Response("raise", <<>>), Response("none", <<>>) }
    \cup { Response("text", b) : b \in SeqsUpTo(ResponseLines, MaxLines + 3) }

InitRepair ==
    /\ mcode = <<>> /\ mprev = <<>> /\ mupd = <<>> /\ mcalls = 0 /\ mexc = "none"
    /\ steps = <<"fix-tsc">> /\ steps_none = FALSE
    /\ max_retries \in {1, MaxRetries}
    /\ llm_client = TRUE
    /\ migrated_code = <<Text(0)>>
    /\ writable = TRUE
    /\ idx = 1 /\ vtype = "typescript"
    /\ p_code = seed_status(migrated_code, steps)
    /\ step_code = mark_in_progress(p_code, status_key(vtype))
    /\ errors = MaxErrors
    /\ updated_code = record_metrics(step_code, status_key(vtype), errors)
    /\ file = step_code
    /\ has_errors = TRUE /\ remaining_errors = 0 /\ retries = 0 /\ ret = NoReturn
    /\ n_checks = 1 /\ n_verifies = 0 /\ n_repairs = 0 /\ n_fixed = 0
    /\ first_check = "errors" /\ invoked = {1} /\ passed = {} /\ failed_at = 0
    /\ clean_on = {}
    /\ last_errors = errors /\ fix_response = NoResponse /\ exc = "none"
    /\ result = NoResult
    /\ cli = NoExit
    /\ checks = <<>>
    /\ pc = "repair"
    /\ SvcOff

RepairAny == pc = "repair" /\ \E r \in RepairAnswers : RepairGiven(r)

NextRepair == RepairAny

SpecRepair == InitRepair /\ [][NextRepair]_vars

(***************************************************************************)
(* Specification of the status annotator alone: any sequence of calls of   *)
(* update_migration_status on any input code.                              *)
(***************************************************************************)
InitStatus ==
    /\ mcode \in InputCodes
    /\ mprev = mcode
    /\ mupd = <<>>
    /\ mcalls = 0
    /\ mexc = "none"
    /\ steps = <<>> /\ steps_none = FALSE /\ max_retries = 0 /\ llm_client = FALSE
    /\ migrated_code = <<>> /\ writable = FALSE /\ file = Missing
    /\ Idle
    /\ SvcOff

MergeStatus(u) ==
    /\ mcalls < MaxCalls
    /\ mprev' = mcode
    /\ mupd' = u
    /\ IF update_raises(mcode, u)
       THEN mcode' = mcode /\ mexc' = "re.error"
       ELSE mcode' = update_migration_status(mcode, u) /\ mexc' = "none"
    /\ mcalls' = mcalls + 1
    /\ UNCHANGED <<pvars, svars>>

NextStatus == \E u \in UpdateSet : MergeStatus(u)

SpecStatus == InitStatus /\ [][NextStatus]_vars

(***************************************************************************)
(* MigrationService: migrations that run at the same time.  Each request   *)
(* is a background task of the one event loop (api/main.py 114-118): a     *)
(* task runs alone from one await to the next.  Each migration runs        *)
(* _run_single_validation_step on the same file path.                      *)
(***************************************************************************)
\* the code each request brings to its step
SvcCode(m) == IF m = 1 THEN <<Text(0)>> ELSE <<LineComment, Text(0)>>

SvcTypes == {"eslint", "typescript"}

\* request.selected_steps of each request, as the types of its steps: the first
\* request asks for eslint or typescript, alone or followed by the build; the
\* second asks for eslint alone or for typescript followed by the build
SvcRequests(m) ==
    IF m = 1 THEN {<<t>> : t \in SvcTypes} \cup {<<t, "build">> : t \in SvcTypes}
    ELSE {<<"eslint">>, <<"typescript", "build">>}

\* The awaits the task of a migration passes when it leaves the block p for the
\* block q (a task gives up the event loop at an await and nowhere else).
\*   iter      the loop header is left through the await of 207, or through
\*             that of 266 when the retries are used;
\*   write, pre_check   lines 214-227 hold no await, unless the pre-check
\*             raises and the handler awaits _log_error (223);
\*   log_error the check of 227 follows the handler with no await;
\*   check     the findings are logged at the awaits of 230-240, whatever
\*             comes next (244 besides when the check passed);
\*   fix       _attempt_llm_fix is awaited and awaits itself (287-322);
\*   exhausted after the await of 266 the step returns to line 181 with no
\*             await;
\*   done      from line 181 the pipeline comes to the next step through the
\*             awaits of 173-174, or returns to execute_migration, which
\*             awaits at 111.
yields(p, q) ==
    \/ p = "iter"
    \/ p = "pre_check" /\ q = "log_error"
    \/ p = "check"
    \/ p = "fix"
    \/ p = "done"

\* the event loop is free or held by the task of m
Scheduled(m) == running \in {0, m}

\* the task of m goes on to the block p
Goto(m, p) ==
    /\ s_pc' = [s_pc EXCEPT ![m] = p]
    /\ running' = IF yields(s_pc[m], p) THEN 0 ELSE m

\* re.search(code_pattern, text, re.DOTALL) with code_pattern "```tsx\n(.*?)\n```"
\* (migration_service.py 318-319): the group may be empty
svc_code_pattern_search(text) ==
    LET i == FirstIndex(text, IsFenceTsx)
        J == IF i = 0 THEN {} ELSE {j \in (i + 2)..Len(text) : StartsFence(text[j])}
    IN  IF J = {} THEN <<0, 0>> ELSE <<i, CHOOSE j \in J : \A k \in J : j <= k>>

\* _attempt_llm_fix (migration_service.py 310-335) and the test of line 258: the
\* code the step goes on with, `c` when the fix gives none (an exception of the
\* call is caught at 332, an empty fixed_code is dropped at 258)
attempt_llm_fix(c, r) ==
    LET m == svc_code_pattern_search(r.body)
        fixed_code == strip(SubSeq(r.body, m[1] + 1, m[2] - 1))
    IN  IF r.kind = "text" /\ m[1] # 0 /\ fixed_code # <<Blank>> THEN fixed_code ELSE c

cvars == <<mvars, envvars, kvars, pipevars, stepvars, histvars, obsvars, cli>>

InitService ==
    /\ mcode = <<>> /\ mprev = <<>> /\ mupd = <<>> /\ mcalls = 0 /\ mexc = "none"
    /\ steps = <<>> /\ steps_none = FALSE /\ migrated_code = <<>>
    /\ max_retries \in 0..MaxRetries
    /\ llm_client \in BOOLEAN
    /\ writable = TRUE
    /\ file \in {Missing, <<Text(0)>>}
    /\ Idle
    /\ running = 0
    /\ s_type \in [Migrations -> SvcTypes]
    /\ s_code = [m \in Migrations |-> SvcCode(m)]
    /\ s_retry = [m \in Migrations |-> 0]
    /\ s_ret = [m \in Migrations |-> NoReturn]
    /\ writer = 0
    /\ s_updated = [m \in Migrations |-> SvcCode(m)]
    /\ s_todo \in {t \in [Migrations -> {<<>>, <<"build">>}] :
                        \A m \in Migrations : <<s_type[m]>> \o t[m] \in SvcRequests(m)}
    /\ s_pc = [m \in Migrations |-> "iter"]
    /\ s_result = [m \in Migrations |-> NoResult]

\* migration_service.py 205-211: the next retry, if there is one
SvcIterate(m) ==
    /\ Scheduled(m) /\ s_pc[m] = "iter"
    /\ Goto(m, IF s_retry[m] < max_retries THEN "write" ELSE "exhausted")
    /\ UNCHANGED <<cvars, s_updated, s_todo, s_result, file, s_type, s_code, s_retry, s_ret, writer>>

\* migration_service.py 214: the code is written to the file; write_file
\* returns False when this call fails (git_operations.py 125-135), which it can
\* on a path that is writable at other times, and the result is dropped
SvcWrite(m) ==
    /\ Scheduled(m) /\ s_pc[m] = "write"
    /\ \E ok \in {writable, FALSE} :
        /\ file' = IF ok THEN s_code[m] ELSE file
        /\ writer' = IF ok THEN m ELSE writer
    /\ Goto(m, IF has_pre_check(s_type[m]) THEN "pre_check" ELSE "check")
    /\ UNCHANGED <<cvars, s_updated, s_todo, s_result, s_type, s_code, s_retry, s_ret>>

\* migration_service.py 216-223: eslint --fix runs on the file, which is read
\* back when the tool reports success; when the reading raises (the file is
\* not there) the handler of 222 awaits _log_error before the check
SvcPreCheck(m) ==
    /\ Scheduled(m) /\ s_pc[m] = "pre_check"
    /\ IF file = Missing
       THEN /\ UNCHANGED <<file, s_code>>
            /\ \E pre_check_success \in BOOLEAN :
                    Goto(m, IF pre_check_success THEN "log_error" ELSE "check")
       ELSE /\ \E fixed \in {file, Rewrite(file)}, pre_check_success \in BOOLEAN :
                    /\ file' = fixed
                    /\ s_code' = [s_code EXCEPT ![m] = IF pre_check_success THEN fixed ELSE @]
            /\ Goto(m, "check")
    /\ UNCHANGED <<cvars, s_updated, s_todo, s_result, s_type, s_retry, s_ret, writer>>

\* migration_service.py 223: the failure of the pre-check has been logged
SvcPreCheckLogged(m) ==
    /\ Scheduled(m) /\ s_pc[m] = "log_error"
    /\ Goto(m, "check")
    /\ UNCHANGED <<cvars, s_updated, s_todo, s_result, file, s_type, s_code, s_retry, s_ret, writer>>

\* migration_service.py 227-260: the check; its findings are logged (230-240)
\* and the step returns success, asks for a fix when a later retry is left, or
\* goes to the next retry
SvcCheck(m) ==
    /\ Scheduled(m) /\ s_pc[m] = "check"
    /\ \E o \in CheckOutcomes(s_type[m], file) :
        IF ~o[1]
        THEN /\ s_ret' = [s_ret EXCEPT ![m] = Return(TRUE, s_code[m], 0, "passed")]
             /\ Goto(m, "done")
             /\ UNCHANGED s_retry
        ELSE IF llm_client /\ s_retry[m] < max_retries - 1
        THEN /\ Goto(m, "fix")
             /\ UNCHANGED <<s_ret, s_retry>>
        ELSE /\ s_retry' = [s_retry EXCEPT ![m] = @ + 1]
             /\ Goto(m, "iter")
             /\ UNCHANGED s_ret
    /\ UNCHANGED <<cvars, s_updated, s_todo, s_result, file, s_type, s_code, writer>>

\* migration_service.py 254-260 and 275-335: the fix is asked for
SvcFix(m) ==
    /\ Scheduled(m) /\ s_pc[m] = "fix"
    /\ \E r \in Responses(s_code[m]) :
            s_code' = [s_code EXCEPT ![m] = attempt_llm_fix(@, r)]
    /\ s_retry' = [s_retry EXCEPT ![m] = @ + 1]
    /\ Goto(m, "iter")
    /\ UNCHANGED <<cvars, s_updated, s_todo, s_result, file, s_type, s_ret, writer>>

\* migration_service.py 265-273: all retries are used
SvcExhausted(m) ==
    /\ Scheduled(m) /\ s_pc[m] = "exhausted"
    /\ s_ret' = [s_ret EXCEPT ![m] = Return(FALSE, s_code[m], 0, "exhausted")]
    /\ Goto(m, "done")
    /\ UNCHANGED <<cvars, s_updated, s_todo, s_result, file, s_type, s_code, s_retry,
                   writer>>

\* migration_service.py 155-187: the step has returned to the pipeline, which
\* takes its code when it passed and goes on with the next step of the list,
\* or returns; the retry counter is a local of the step and ends with it
SvcStepReturned(m) ==
    /\ Scheduled(m) /\ s_pc[m] = "done"
    /\ IF s_ret[m].ok
       THEN /\ s_updated' = [s_updated EXCEPT ![m] = s_ret[m].code]
            /\ IF s_todo[m] # <<>>
               THEN /\ s_type' = [s_type EXCEPT ![m] = Head(s_todo[m])]
                    /\ s_todo' = [s_todo EXCEPT ![m] = Tail(@)]
                    /\ s_code' = [s_code EXCEPT ![m] = s_ret[m].code]
                    /\ s_retry' = [s_retry EXCEPT ![m] = 0]
                    /\ Goto(m, "iter")
                    /\ UNCHANGED s_result
               ELSE /\ s_result' = [s_result EXCEPT ![m] = Result(TRUE, s_ret[m].code)]
                    /\ s_retry' = [s_retry EXCEPT ![m] = 0]
                    /\ Goto(m, "returned")
                    /\ UNCHANGED <<s_type, s_todo, s_code>>
       ELSE /\ s_result' = [s_result EXCEPT ![m] = Result(FALSE, s_updated[m])]
            /\ s_retry' = [s_retry EXCEPT ![m] = 0]
            /\ Goto(m, "returned")
            /\ UNCHANGED <<s_updated, s_type, s_todo, s_code>>
    /\ UNCHANGED <<cvars, file, s_ret, writer>>

NextService ==
    \E m \in Migrations :
        \/ SvcIterate(m)
        \/ SvcWrite(m)
        \/ SvcPreCheck(m)
        \/ SvcPreCheckLogged(m)
        \/ SvcCheck(m)
        \/ SvcFix(m)
        \/ SvcExhausted(m)
        \/ SvcStepReturned(m)

SpecService == InitService /\ [][NextService]_vars

(***************************************************************************)
(* The checker adapters called on their own, on a file that exists or not, *)
(* with everything the tool process can do.                                *)
(***************************************************************************)
InitCheckers ==
    /\ mcode = <<>> /\ mprev = <<>> /\ mupd = <<>> /\ mcalls = 0 /\ mexc = "none"
    /\ steps = <<>> /\ steps_none = FALSE /\ max_retries = 0 /\ llm_client = FALSE
    /\ migrated_code = <<>> /\ writable = FALSE
    /\ file \in {Missing, <<Text(0)>>}
    /\ Idle
    /\ SvcOff

Called(adapter, run, answer) == [adapter |-> adapter, run |-> run, answer |-> answer]

\* validation.py 130-178
CheckLint ==
    /\ Len(checks) < MaxCalls
    /\ \E run \in LintRuns :
            checks' = Append(checks, Called("eslint", run, check_lint_errors(file, run)))
    /\ UNCHANGED <<mvars, envvars, file, pipevars, stepvars, histvars, obsvars, cli, svars>>

\* validation.py 180-217
CheckTypescript ==
    /\ Len(checks) < MaxCalls
    /\ \E run \in TscRuns(file) :
            checks' = Append(checks, Called("typescript", run, check_typescript_errors(run)))
    /\ UNCHANGED <<mvars, envvars, file, pipevars, stepvars, histvars, obsvars, cli, svars>>

\* validation.py 219-256
CheckBuild ==
    /\ Len(checks) < MaxCalls
    /\ \E run \in BuildRuns :
            checks' = Append(checks, Called("build", run, check_build_errors(run)))
    /\ UNCHANGED <<mvars, envvars, file, pipevars, stepvars, histvars, obsvars, cli, svars>>

NextCheckers ==
    \/ CheckLint
    \/ CheckTypescript
    \/ CheckBuild

SpecCheckers == InitCheckers /\ [][NextCheckers]_vars

(***************************************************************************)
(* Properties                                                              *)
(***************************************************************************)
StepKey == status_key(vtype)

\* the marker of the code `c` records `value` for `key`
MarkerHas(c, key, value) ==
    /\ WellFormedMarker(c)
    /\ key \in DOMAIN MarkerMapping(c)
    /\ MarkerMapping(c)[key] = value

C2_ExactlyNChecks ==
    (/\ pc \in {"step_returned", "step_raised"}
     /\ max_retries >= 1 /\ n_checks >= 1 /\ has_errors
     /\ ~(pc = "step_returned" /\ ret.how = "fatal")) =>
        /\ pc = "step_returned" /\ ~ret.ok
        /\ n_checks = max_retries
        /\ llm_client => n_repairs \in {max_retries - 1, max_retries}

\* C3: no step after the first step that does not pass is started: once a step
\* has failed, no adapter of a later step has been invoked and the pipeline has
\* returned overall failure (with [eslint, build, typescript] and eslint failing
\* all its retries, the build and typescript checkers are never invoked).
C3_ShortCircuit ==
    failed_at # 0 =>
        /\ \A j \in invoked : j <= failed_at
        /\ pc \in {"returned", "exited"} /\ result.done /\ ~result.success

C3_Witness ==
    /\ steps = <<>> /\ failed_at = 1 /\ vtype = "eslint" /\ ret.how = "exhausted"
    /\ max_retries = MaxRetries /\ pc = "returned" /\ invoked = {1}

\* C4 as claimed: run_validation_pipeline returns success = true if and only if
\* the step runner was run and returned success for every step of the list.
C4_SuccessIffEveryListedStepPassed ==
    result.done => (result.success <=> \A i \in 1..Len(Steps) : i \in passed)

\* C4 as amended: run_validation_pipeline returns success = true if and only if
\* the step runner was run and returned success for every recognised step of
\* the list (fix-eslint, fix-build, fix-tsc; any other identifier is skipped and
\* does not count); it returns false as soon as one step does not pass.
C4_SuccessIffEveryKnownStepPassed ==
    /\ result.done =>
        (result.success <=> \A i \in 1..Len(Steps) : Steps[i] \in KnownSteps => i \in passed)
    /\ failed_at # 0 => (result.done /\ ~result.success)

C4_Witness ==
    /\ result.done /\ result.success /\ steps = <<"fix-tsc", "fix-lint">> /\ passed = {1}

\* C5: whenever run_validation_pipeline returns overall failure, the code it
\* returns is the code of the failing step's last state, never an earlier
\* version such as the pipeline's input code.
C5_FailureReturnsLastState ==
    (result.done /\ ~result.success) => result.code = updated_code

\* C6: when the working file does not exist, run_validation_step makes no
\* repair call and no second iteration, and returns failure with a single
\* finding, for every step type and every max_retries >= 1.
C6_MissingFileShortCircuit ==
    (file = Missing /\ vtype # "none" /\ max_retries >= 1) =>
        /\ n_repairs = 0
        /\ retries = 0
        /\ pc = "step_returned" => (~ret.ok /\ ret.how = "fatal" /\ ret.nerr = 1)

\* C7: after any call of update_migration_status the code holds exactly one
\* status marker line, whatever the marker state of the input was.
C7_ExactlyOneMarkerLine == mcalls > 0 => MarkerLines(mcode) = 1

\* C8: with a well-formed marker in the code, update_migration_status yields a
\* marker whose mapping is the old mapping with every key of the updates added
\* or overwritten and every other key kept, and no line but the marker line
\* changes; the call returns.
C8_MergeByKey ==
    (mcalls > 0 /\ WellFormedMarker(mprev)) =>
        LET old == MarkerMapping(mprev)
            new == MappingOf(mupd)
            m == status_match(mprev)
        IN  /\ mexc = "none"
            /\ WellFormedMarker(mcode)
            /\ status_match(mcode) = m
            /\ DOMAIN MarkerMapping(mcode) = DOMAIN old \cup DOMAIN new
            /\ \A key \in DOMAIN MarkerMapping(mcode) :
                MarkerMapping(mcode)[key] = IF key \in DOMAIN new THEN new[key] ELSE old[key]
            /\ Len(mcode) = Len(mprev)
            /\ \A i \in 1..Len(mprev) : i # m => mcode[i] = mprev[i]

\* C9: update_migration_status(code, {}) on a code that carries a marker leaves
\* the content of the marker unchanged.  Stated for the marker whose payload
\* parses: the call returns, the marker stays where it was and its mapping is
\* the one it had.
C9_EmptyUpdateKeepsWellFormedMarker ==
    (mcalls > 0 /\ mupd = <<>> /\ WellFormedMarker(mprev)) =>
        /\ mexc = "none"
        /\ status_match(mcode) = status_match(mprev)
        /\ WellFormedMarker(mcode)
        /\ MarkerMapping(mcode) = MarkerMapping(mprev)

\* C10: when run_validation_step returns failure because its retries are
\* exhausted, the entry of the step in the marker of the returned code is the
\* metrics record of its last iteration.
C10_ExhaustedStepKeepsLastMetrics ==
    (pc = "step_returned" /\ ret.how = "exhausted" /\ n_checks >= 1) =>
        MarkerHas(ret.code, StepKey, validation_status(errors))

\* C11: when run_validation_step returns failure after exhausting its retries,
\* the remaining findings it returns are the findings of the last check it
\* executed, with or without a repair service, whether or not a repair
\* produced code.
C11_ExhaustedReturnsLastFindings ==
    (pc = "step_returned" /\ ret.how = "exhausted" /\ n_checks >= 1) =>
        ret.nerr = last_errors

\* the first fenced block of a response text that is tagged tsx: <<i, j>>, the
\* line "```tsx" and the first line after it that starts with "```"; <<0, 0>>
\* when the text holds no such block
TsxBlock(text) ==
    LET O == {i \in 1..Len(text) : text[i] = FenceTsx /\ \E j \in (i + 1)..Len(text) :
                                        text[j] \in {Fence, FenceTsx, FenceOther}}
    IN  IF O = {} THEN <<0, 0>>
        ELSE LET i == CHOOSE o \in O : \A q \in O : o <= q
                 J == {j \in (i + 1)..Len(text) : text[j] \in {Fence, FenceTsx, FenceOther}}
             IN  <<i, CHOOSE j \in J : \A q \in J : j <= q>>

HasTsxBlock(text) == TsxBlock(text)[1] # 0

\* the fenced blocks of a response text that are tagged tsx: <<i, j>>, a line
\* "```tsx" and the line "```" that closes it, with no fence line in between
TsxBlocks(text) ==
    { b \in (1..Len(text)) \X (1..Len(text)) :
        /\ b[1] < b[2]
        /\ text[b[1]] = FenceTsx /\ text[b[2]] = Fence
        /\ \A k \in (b[1] + 1)..(b[2] - 1) : ~StartsFence(text[k]) }

\* the lines between the fences of the block b
Inner(text, b) == SubSeq(text, b[1] + 1, b[2] - 1)

\* a text without the blank lines at its ends ("" when nothing is left)
Trimmed(c) ==
    LET N == {i \in 1..Len(c) : c[i] # Blank}
    IN  IF N = {} THEN <<Blank>>
        ELSE SubSeq(c, CHOOSE i \in N : \A q \in N : i <= q, CHOOSE i \in N : \A q \in N : q <= i)

NoFencedBlock(text) == \A i \in 1..Len(text) : text[i] \notin {Fence, FenceTsx, FenceOther}

\* the repair call left the code as it was and did not raise
NoRepair ==
    /\ updated_code' = updated_code /\ file' = file
    /\ pc' = "loop" /\ exc' = "none" /\ retries' = retries + 1

\* the repair call replaced the code by `c`
RepairedWith(c) == updated_code' = c /\ pc' = "verify" /\ exc' = "none"

\* C12: given a response that contains a fenced block tagged tsx, the repair
\* step takes exactly the trimmed inner text of the block as the replacement
\* code (that of any of them when there are several; for a block with no inner
\* text, leaving the code as it is passes too); given a response with no
\* fenced block at all, the code is not replaced and no exception is raised.
C12_ExtractsEveryTsxBlock ==
    [][(pc = "repair" /\ fix_response'.kind = "text") =>
        LET text == fix_response'.body
        IN  /\ TsxBlocks(text) # {} =>
                    \E b \in TsxBlocks(text) :
                        \/ RepairedWith(Trimmed(Inner(text, b)))
                        \/ Inner(text, b) \in {<<>>, <<Blank>>} /\ NoRepair
            /\ NoFencedBlock(text) => NoRepair]_vars

\* C13: run_validation_pipeline never raises: no exception leaves it, and any
\* exception raised inside it (by the repair call, the reading of the file
\* after the pre-check, the status annotation) ends in a returned outcome with
\* success = false.
C13_PipelineNeverRaises ==
    /\ pc # "propagated"
    /\ exc # "none" => pc \in {"step_raised", "returned", "exited"}
    /\ (exc # "none" /\ pc \in {"returned", "exited"}) => (result.done /\ ~result.success)

C13_Witness ==
    /\ pc = "returned" /\ exc = "RuntimeError" /\ n_repairs = 2
    /\ result.done /\ ~result.success

\* C14: an exception raised inside the repair (LLM) call during
\* run_validation_step is caught at the boundary of the step runner and counted
\* as one failed attempt: it does not leave the step, which goes on with its
\* remaining retries.
C14_RepairExceptionStaysInStep ==
    (fix_response.kind = "raise" /\ max_retries >= 2) => (exc = "none" /\ pc # "step_raised")

\* the first line of the code that carries the marker prefix, 0 if none
MarkerAt(code) == FirstIndex(code, HasPrefix)

\* the code carries a marker whose payload does not parse
MalformedMarker(code) == MarkerAt(code) # 0 /\ code[MarkerAt(code)].k # "marker"

\* C15: when the payload of the existing marker cannot be parsed,
\* update_migration_status does not raise, takes the old content as empty and
\* writes, in the place of the old marker, a marker that holds exactly the
\* given updates; no other line changes.
C15_MalformedPayloadCountsAsEmpty ==
    (mcalls > 0 /\ MalformedMarker(mprev)) =>
        LET m == MarkerAt(mprev)
        IN  /\ mexc = "none"
            /\ Len(mcode) = Len(mprev)
            /\ mcode[m].k = "marker"
            /\ MappingOf(mcode[m].p) = MappingOf(mupd)
            /\ \A i \in 1..Len(mprev) : i # m => mcode[i] = mprev[i]

\* the last line of the comment block the code starts with, 0 when the code
\* does not start with a comment: the run of "//" lines, or the block comment
\* up to the line that closes it
LeadingCommentEnd(code) ==
    LET f == FirstIndex(code, NotBlank)
    IN  IF f = 0 THEN 0
        ELSE IF code[f] = LineComment THEN
            CHOOSE e \in f..Len(code) :
                /\ \A i \in f..e : code[i] = LineComment
                /\ e < Len(code) => code[e + 1] # LineComment
        ELSE IF code[f] = BlockComment THEN f
        ELSE IF code[f] = BlockOpen THEN
            LET E == {e \in (f + 1)..Len(code) : code[e] = BlockClose}
            IN  IF E = {} THEN Len(code) ELSE CHOOSE e \in E : \A q \in E : e <= q
        ELSE 0

\* C16: on a code with no marker, update_migration_status creates a marker
\* that maps eslint and tsc to "pending" unless the updates give them, plus
\* every key of the updates with its value, and inserts it as one new line
\* after the comment block the code starts with, or as the first line when
\* there is none; the original text is otherwise unchanged.
C16_NewMarkerAfterLeadingComment ==
    (mcalls > 0 /\ MarkerLines(mprev) = 0) =>
        LET e == LeadingCommentEnd(mprev)
            new == MappingOf(mupd)
        IN  /\ Len(mcode) = Len(mprev) + 1
            /\ SubSeq(mcode, 1, e) = SubSeq(mprev, 1, e)
            /\ SubSeq(mcode, e + 2, Len(mcode)) = SubSeq(mprev, e + 1, Len(mprev))
            /\ mcode[e + 1].k = "marker"
            /\ DOMAIN MappingOf(mcode[e + 1].p) = DOMAIN new \cup {"eslint", "tsc"}
            /\ \A key \in DOMAIN MappingOf(mcode[e + 1].p) :
                MappingOf(mcode[e + 1].p)[key] = IF key \in DOMAIN new THEN new[key] ELSE Pending

\* C17: the seeding of run_validation_pipeline sets "pending" only for the
\* configured steps that the marker does not hold yet: a value that the marker
\* of the input code records for a key is still there after the seeding.
C17_SeedingKeepsRecordedStatus ==
    (pc = "next_step" /\ idx = 0 /\ WellFormedMarker(migrated_code)) =>
        \A key \in DOMAIN MarkerMapping(migrated_code) :
            MarkerHas(p_code, key, MarkerMapping(migrated_code)[key])

\* C18: whenever the validation pipeline is run, migrate_component returns True
\* if and only if run_validation_pipeline returned success = true, also when
\* the steps argument is left unspecified.
C18_ExitMirrorsPipelineSuccess ==
    cli.done => (cli.ok <=> (result.done /\ result.success))

\* the file holds what the migration m wrote last, as it is or after the
\* rewriting by the eslint --fix of m's own pre-check
HoldsWriteOf(m, f, fixed) ==
    \/ f = s_code[m]
    \/ fixed /\ s_type[m] = "eslint" /\ f = Rewrite(s_code[m])

\* C19: with migrations that run at the same time in the service, on the same
\* file path, every pre-check and every check of a migration analyses the
\* content that this migration wrote last, never the content written by the
\* other migration.
C19_ChecksSeeOwnWrite ==
    \A m \in Migrations :
        s_pc[m] \in {"pre_check", "check"} =>
            /\ writer \in {0, m}
            /\ writer = m => HoldsWriteOf(m, file, s_pc[m] = "check")

\* C20: whenever run_validation_step returns success, the last check it made
\* reported no errors and ran on a file whose content is the returned code up
\* to the status marker line: no change of the code is returned as successful
\* without having been checked clean afterwards.
C20_SuccessWasCheckedClean ==
    (pc = "step_returned" /\ ret.ok) =>
        /\ ~has_errors
        /\ file # Missing
        /\ CodeBody(file) = CodeBody(ret.code)

\* C21: when run_validation_pipeline returns overall success and the working
\* file can be written, the returned code is, up to the status marker line,
\* the very content on which the checker of every step that passed reported no
\* error: no later step changed the code after an earlier step checked it clean.
C21_FinalCodePassedEveryChecker ==
    (pc = "returned" /\ result.success /\ writable) =>
        \A i \in passed :
            \E c \in clean_on : c[1] = i /\ c[2] = CodeBody(result.code)

\* C22: in every iteration of run_validation_step in which the check adapter
\* returns an empty findings list (the check of line 358 or the verification of
\* line 450), the step returns success and the marker of the returned code maps
\* the key of the step to "done".
C22_EmptyFindingsMeansDone ==
    [][((Check \/ Verify) /\ last_errors' = 0) =>
            /\ pc' = "step_returned" /\ ret'.ok
            /\ MarkerHas(ret'.code, StepKey, Done)]_vars

\* C23: in an iteration of run_validation_step where the check fails and no
\* repair service is configured, or the repair service answers (it does not
\* raise) and its answer yields no replacement code, one retry is consumed,
\* the code keeps its content (up to the marker line), the file is left as it
\* is, and the run goes on to the test of the loop.
C23_NoRepairConsumesOneRetry ==
    [][(\/ Check /\ has_errors' /\ ~llm_client
        \/ Repair /\ fix_response'.kind # "raise" /\ ~code_match(fix_response')) =>
            /\ retries' = retries + 1
            /\ pc' = "loop"
            /\ file' = file
            /\ CodeBody(updated_code') = CodeBody(updated_code)]_vars

\* C24: every call of run_validation_step with max_retries = N runs at most N
\* iterations of the loop, at most N repair calls and at most 2N checker
\* invocations, and, when the repair call it made has returned, it ends by
\* returning success or failure: it does not end with an exception of its own.
C24_StepReturnsWithinBounds ==
    /\ retries <= max_retries
    /\ n_checks <= max_retries
    /\ n_repairs <= max_retries
    /\ n_checks + n_verifies <= 2 * max_retries
    /\ (pc = "step_raised" /\ fix_response.kind \notin {"unset", "raise"}) =>
            exc # "TypeError"

\* the positions at which a step is being run
InStep == pc \in {"loop", "pre_check", "check", "repair", "verify", "step_returned"}

\* C25: run_validation_pipeline runs the recognised steps of the list in the
\* order of the list (eslint, build, typescript when no list is given), one at
\* a time: the step being run is the entry idx of the list, every recognised
\* entry before it was run and passed, the code given to its runner is the code
\* the runner of the previous step returned (the seeded input code for the
\* first), and an entry that is not recognised has no checker invoked and is
\* never the step the pipeline fails at.
C25_StepsRunInListOrder ==
    /\ InStep =>
        /\ idx \in 1..Len(Steps)
        /\ Steps[idx] \in KnownSteps /\ vtype = step_type(Steps[idx])
        /\ passed = {i \in 1..(idx - 1) : Steps[i] \in KnownSteps}
        /\ step_code = mark_in_progress(p_code, status_key(vtype))
    /\ (InStep /\ steps = <<>>) =>
        vtype = (CASE idx = 1 -> "eslint" [] idx = 2 -> "build" [] idx = 3 -> "typescript")
    /\ pc = "next_step" =>
        /\ passed = {i \in 1..idx : Steps[i] \in KnownSteps}
        /\ p_code = IF passed = {} THEN seed_status(migrated_code, Steps) ELSE ret.code
    /\ \A i \in invoked : Steps[i] \in KnownSteps
    /\ failed_at # 0 => Steps[failed_at] \in KnownSteps

C25_Witness ==
    /\ steps = <<>> /\ idx = 3 /\ pc = "check" /\ vtype = "typescript"
    /\ passed = {1, 2}
    /\ CodeBody(p_code) # CodeBody(migrated_code)
    /\ step_code = mark_in_progress(p_code, "tsc")

\* the first fenced block of a response text that has a language tag other
\* than tsx: <<i, j>>, its opening line and the first line after it that starts
\* with "```"; <<0, 0>> when the text holds no such block
OtherBlock(text) ==
    LET O == {i \in 1..Len(text) : text[i] = FenceOther /\ \E j \in (i + 1)..Len(text) :
                                        text[j] \in {Fence, FenceTsx, FenceOther}}
    IN  IF O = {} THEN <<0, 0>>
        ELSE LET i == CHOOSE o \in O : \A q \in O : o <= q
                 J == {j \in (i + 1)..Len(text) : text[j] \in {Fence, FenceTsx, FenceOther}}
             IN  <<i, CHOOSE j \in J : \A q \in J : j <= q>>

\* C26: in the repair step, a response text with no fenced block tagged tsx but
\* with a fenced block that has another language tag gives that block's
\* trimmed text as the replacement code; "no repair" results only from a text
\* with no fenced block at all.
C26_FallsBackToOtherBlocks ==
    [][(pc = "repair" /\ fix_response'.kind = "text" /\ ~HasTsxBlock(fix_response'.body)) =>
        LET text == fix_response'.body
            b == OtherBlock(text)
        IN  /\ b[1] # 0 => RepairedWith(Trimmed(SubSeq(text, b[1] + 1, b[2] - 1)))
            /\ NoRepair => NoFencedBlock(text)]_vars

\* the tool process of a call could not be run: the program could not be
\* started, the file is not there, or the tool ended with an error code
\* without reporting any problem of the code
ToolFailed(c) ==
    \/ c.run.kind = "raise"
    \/ c.adapter = "eslint" /\ (file = Missing \/ c.run.stderr = "no_files")
    \/ c.run.rc # 0 /\ c.run.n = 0 /\ c.run.stdout # "json"

\* C27: whenever the tool process of a checker adapter cannot be run, the
\* adapter answers has-findings = true with a finding of severity 3 (fatal)
\* that describes the failure.
C27_ToolFailureIsFatalFinding ==
    \A i \in 1..Len(checks) :
        ToolFailed(checks[i]) =>
            /\ checks[i].answer.has_errors
            /\ \E k \in 1..Len(checks[i].answer.errors) :
                    /\ checks[i].answer.errors[k].severity = 3
                    /\ checks[i].answer.errors[k].about
                            \in {"file not found", "exception", "output not parsed"}

\* C28: when the working file cannot be written, run_validation_step does not
\* run any checker (the file holds something else than the code of the step)
\* and does not return success.
C28_FailedWriteStopsTheStep ==
    ~writable =>
        /\ n_checks = 0 /\ n_verifies = 0
        /\ ~(pc = "step_returned" /\ ret.ok)

\* C29: when run_validation_pipeline returns success (the working file being
\* writable), the marker of the returned code maps the key of every step that
\* ran and passed to "done", whatever the repair responses of the later steps
\* held.
C29_DoneIsDurable ==
    (pc = "returned" /\ result.success /\ writable) =>
        \A i \in passed : MarkerHas(result.code, status_key(step_type(Steps[i])), Done)

\* C30: when a step of the service's pipeline fails, the code the pipeline
\* returns (the final code of the migration) is the code of the failing step's
\* last state, validation success is false and the steps that follow are not
\* run.
C30_ServiceKeepsFailedStepCode ==
    \A m \in Migrations :
        (s_pc[m] = "returned" /\ ~s_ret[m].ok) =>
            /\ s_result[m].done /\ ~s_result[m].success
            /\ s_result[m].code = s_ret[m].code
====
